---- MODULE Spec2Model ----
(***************************************************************************)
(* Model of the ir:USER Skylander portal demo                              *)
(* (ctru-rs/examples/ir-user-skylander-portal.rs).                         *)
(*                                                                         *)
(* The demo is a sequential program; pc is its position.  The ir:USER      *)
(* service, the HID keys and the infrared device are the environment: the  *)
(* service changes its connection status, signals its events and receives  *)
(* packets asynchronously, between any two steps of the demo.              *)
(***************************************************************************)
EXTENDS Integers, FiniteSets, Sequences, TLC

\* ---------------------------------------------------------------- bounds
\* Total number of packets the infrared device delivers in one run.
MaxArrived == 2

\* ------------------------------------------------------ program constants
PACKET_COUNT == 8

\* ConnectionStatus values reported by get_status_info.
ConnectionStatus == {"Disconnected", "Connecting", "Connected"}

\* Values of the ConnectionResult enum; "None" = connect_to_portal has not returned.
ConnectionResult == {"Connected", "Canceled"}

\* IrUser methods that ask the service to establish a connection.
ConnectMethods == {"require_connection"}

\* IrUser methods that send a packet to the connected device.
SendMethods == {"request_input_polling", "send_ir_nop"}

VARIABLES
    pc,                 \* position of the demo
    hp_ret,             \* where handle_packets returns to
    apt_init, gfx_init, \* services held by main
    ir_user_init,       \* IrUser::init succeeded
    hid_init,           \* Hid::new succeeded
    irrst_init,         \* ir:rst was initialized by HID initialization
    start_held,         \* hid.keys_held().contains(KeyPad::START) at the last scan
    a_down,             \* hid.keys_down().contains(KeyPad::A) at the last scan
    is_connected,       \* main's local
    result,             \* return value of connect_to_portal
    connection_status,  \* service: current connection status
    ev_conn, ev_recv, ev_send,  \* service: events signalled and not yet consumed
    recv_pending,       \* service: packets in the receive buffer
    arrived,            \* environment: packets delivered so far
    packet_count,       \* handle_packets' local
    ir_calls,           \* IrUser methods the demo has called so far
    observed,           \* status read at line 163 in the current connection attempt
    disconnect_calls,   \* disconnect() calls in the current connection-loop iteration
    first_packet_handled, \* handle_packets was called from the first-packet loop
    printed,            \* handle_packets has printed the current packets
    release_calls,      \* release_received_data calls in the current handle_packets
    obtained, released  \* packets returned by get_packets / released, over the run

vars == <<pc, hp_ret, apt_init, gfx_init, ir_user_init, hid_init, irrst_init,
          start_held, a_down, is_connected, result, connection_status,
          ev_conn, ev_recv, ev_send, recv_pending, arrived, packet_count,
          ir_calls, observed, disconnect_calls, first_packet_handled,
          printed, release_calls, obtained, released>>

svcVars == <<connection_status, ev_conn, ev_recv, ev_send, recv_pending, arrived>>
initVars == <<apt_init, gfx_init, ir_user_init, hid_init, irrst_init>>
keyVars == <<start_held, a_down>>
hpVars == <<hp_ret, packet_count, printed, release_calls, obtained, released>>
connVars == <<observed, disconnect_calls, first_packet_handled>>

Terminal == {"exit", "panicked"}

Init ==
    /\ pc = "apt_new"
    /\ hp_ret = "none"
    /\ apt_init = FALSE /\ gfx_init = FALSE /\ ir_user_init = FALSE
    /\ hid_init = FALSE /\ irrst_init = FALSE
    /\ start_held = FALSE /\ a_down = FALSE
    /\ is_connected = FALSE
    /\ result = "None"
    /\ connection_status = "Disconnected"
    /\ ev_conn = FALSE /\ ev_recv = FALSE /\ ev_send = FALSE
    /\ recv_pending = 0 /\ arrived = 0
    /\ packet_count = 0
    /\ ir_calls = {}
    /\ observed = "None"
    /\ disconnect_calls = 0
    /\ first_packet_handled = FALSE
    /\ printed = FALSE
    /\ release_calls = 0
    /\ obtained = 0 /\ released = 0

\* ------------------------------------------------------------- helpers

\* The exported hook libctru consults when initializing HID.
hidShouldUseIrrst_true == TRUE
hidShouldUseIrrst == FALSE

\* A failed unwrap()/expect()/panic!() ends the program.
Panic == pc' = "panicked"

\* The demo calls the IrUser methods in S.
Calls(S) == ir_calls' = ir_calls \cup S

\* print_status_info: selects consoles and prints get_status_info().
PrintStatusInfo == Calls({"get_status_info"})

\* hid.scan_input(): the keys are whatever the user does.
ScanInput ==
    /\ start_held' \in BOOLEAN
    /\ a_down' \in BOOLEAN


\* event.wait_for_event(timeout): Ok consumes a signalled event; otherwise
\* the wait times out or fails with another error.
WaitResults(ev) == IF ev THEN {"Ok"} ELSE {"Timeout", "Error"}

\* ---------------------------------------------------------------- main

\* line 24: Apt::new().unwrap()
AptNew ==
    /\ pc = "apt_new"
    /\ \/ apt_init' = TRUE /\ pc' = "gfx_new"
       \/ apt_init' = FALSE /\ Panic
    /\ UNCHANGED <<gfx_init, ir_user_init, hid_init, irrst_init, keyVars,
                   is_connected, result, svcVars, ir_calls, connVars, hpVars>>

\* lines 25-27: Gfx::new().unwrap() and the two consoles
GfxNew_HidFirst ==
    /\ pc = "gfx_new"
    /\ \/ gfx_init' = TRUE /\ pc' = "hid_new"
       \/ gfx_init' = FALSE /\ Panic
    /\ UNCHANGED <<apt_init, ir_user_init, hid_init, irrst_init, keyVars,
                   is_connected, result, svcVars, ir_calls, connVars, hpVars>>

GfxNew ==
    /\ pc = "gfx_new"
    /\ \/ gfx_init' = TRUE /\ pc' = "demo_new"
       \/ gfx_init' = FALSE /\ Panic
    /\ UNCHANGED <<apt_init, ir_user_init, hid_init, irrst_init, keyVars,
                   is_connected, result, svcVars, ir_calls, connVars, hpVars>>

\* line 28, lines 94-133: SkylanderPortalDemo::new starts ir:USER and
\* fetches the three event handles; each expect() may panic.
DemoNew ==
    /\ pc = "demo_new"
    /\ \/ /\ ir_user_init' = TRUE
          /\ Calls({"init", "get_recv_event", "get_send_event",
                    "get_connection_status_event"})
          /\ pc' = "main_print_status"
       \/ /\ ir_user_init' = FALSE       \* IrUser::init failed
          /\ Calls({"init"})
          /\ Panic
       \/ /\ ir_user_init' = TRUE        \* one of the get_*_event calls failed
          /\ Calls({"init", "get_recv_event"})
          /\ Panic
    /\ UNCHANGED <<apt_init, gfx_init, hid_init, irrst_init, keyVars,
                   is_connected, result, svcVars, connVars, hpVars>>

\* line 29: demo.print_status_info()
MainPrintStatus ==
    /\ pc = "main_print_status"
    /\ PrintStatusInfo
    /\ pc' = "hid_new"
    /\ UNCHANGED <<initVars, keyVars, is_connected, result, svcVars,
                   connVars, hpVars>>

\* line 34: Hid::new().unwrap(); HID initialization also initializes ir:rst
\* when the hidShouldUseIrrst hook says so.
HidNew ==
    /\ pc = "hid_new"
    /\ \/ /\ hid_init' = TRUE
          /\ irrst_init' = hidShouldUseIrrst
          /\ pc' = "main_loop"
       \/ /\ hid_init' = FALSE
          /\ irrst_init' = irrst_init
          /\ Panic
    /\ UNCHANGED <<apt_init, gfx_init, ir_user_init, keyVars, is_connected,
                   result, svcVars, ir_calls, connVars, hpVars>>

\* line 39: while apt.main_loop()
MainLoop ==
    /\ pc = "main_loop"
    /\ pc' \in {"main_scan", "exit"}
    /\ UNCHANGED <<initVars, keyVars, is_connected, result, svcVars,
                   ir_calls, connVars, hpVars>>

\* line 40: hid.scan_input()
MainScan ==
    /\ pc = "main_scan"
    /\ ScanInput
    /\ pc' = "main_check_start"
    /\ UNCHANGED <<initVars, is_connected, result, svcVars, ir_calls,
                   connVars, hpVars>>

\* lines 43-45: if START is held, break
MainCheckStart_NoBreak ==
    /\ pc = "main_check_start"
    /\ pc' = "main_poll_recv"
    /\ UNCHANGED <<initVars, keyVars, is_connected, result, svcVars,
                   ir_calls, connVars, hpVars>>

MainCheckStart ==
    /\ pc = "main_check_start"
    /\ pc' = IF start_held THEN "exit" ELSE "main_poll_recv"
    /\ UNCHANGED <<initVars, keyVars, is_connected, result, svcVars,
                   ir_calls, connVars, hpVars>>

\* lines 48-54: poll the receive-packet event; handle packets if signalled
MainPollRecv ==
    /\ pc = "main_poll_recv"
    /\ IF ev_recv
         THEN /\ ev_recv' = FALSE
              /\ pc' = "hp_get" /\ hp_ret' = "main_poll_send"
         ELSE /\ ev_recv' = ev_recv
              /\ pc' = "main_poll_send" /\ hp_ret' = hp_ret
    /\ UNCHANGED <<initVars, keyVars, is_connected, result, connection_status,
                   ev_conn, ev_send, recv_pending, arrived, ir_calls, connVars,
                   packet_count, printed, release_calls, obtained, released>>

\* lines 57-63: poll the send-packet event; handle packets if signalled
MainPollSend ==
    /\ pc = "main_poll_send"
    /\ IF ev_send
         THEN /\ ev_send' = FALSE
              /\ pc' = "hp_get" /\ hp_ret' = "main_check_a"
         ELSE /\ ev_send' = ev_send
              /\ pc' = "main_check_a" /\ hp_ret' = hp_ret
    /\ UNCHANGED <<initVars, keyVars, is_connected, result, connection_status,
                   ev_conn, ev_recv, recv_pending, arrived, ir_calls, connVars,
                   packet_count, printed, release_calls, obtained, released>>

\* lines 66-69: if A was pressed and we are not connected, call connect_to_portal
MainCheckA ==
    /\ pc = "main_check_a"
    /\ IF a_down /\ ~is_connected
         THEN /\ pc' = "conn_scan"
              /\ result' = "None"
              /\ observed' = "None"
              /\ disconnect_calls' = 0
              /\ first_packet_handled' = FALSE
         ELSE /\ pc' = "main_vblank"
              /\ UNCHANGED <<result, connVars>>
    /\ UNCHANGED <<initVars, keyVars, is_connected, svcVars, ir_calls, hpVars>>

\* lines 69-72: match on connect_to_portal's result
MainMatch ==
    /\ pc = "main_match"
    /\ IF result = "Connected"
         THEN is_connected' = TRUE /\ pc' = "main_vblank"
         ELSE is_connected' = is_connected /\ pc' = "exit"
    /\ UNCHANGED <<initVars, keyVars, result, svcVars, ir_calls, connVars, hpVars>>

\* line 75: gfx.wait_for_vblank()
MainVblank ==
    /\ pc = "main_vblank"
    /\ pc' = "main_loop"
    /\ UNCHANGED <<initVars, keyVars, is_connected, result, svcVars,
                   ir_calls, connVars, hpVars>>


\* ---------------------------------------------------- connect_to_portal

\* line 147 (connection loop): hid.scan_input()
ConnScan ==
    /\ pc = "conn_scan"
    /\ ScanInput
    /\ disconnect_calls' = 0            \* a new iteration begins
    /\ pc' = "conn_check_start"
    /\ UNCHANGED <<initVars, is_connected, result, svcVars, ir_calls,
                   observed, first_packet_handled, hpVars>>

\* lines 148-150: if START is held, return Canceled
ConnCheckStart ==
    /\ pc = "conn_check_start"
    /\ IF start_held
         THEN result' = "Canceled" /\ pc' = "main_match"
         ELSE result' = result /\ pc' = "conn_wait"
    /\ UNCHANGED <<initVars, keyVars, is_connected, svcVars, ir_calls,
                   connVars, hpVars>>

\* lines 153-160: wait up to 100 ms on the connection-status event;
\* a non-timeout error panics
ConnWait ==
    /\ pc = "conn_wait"
    /\ \E r \in WaitResults(ev_conn) :
         /\ ev_conn' = FALSE
         /\ pc' = IF r = "Error" THEN "panicked" ELSE "conn_status"
    /\ UNCHANGED <<initVars, keyVars, is_connected, result, connection_status,
                   ev_recv, ev_send, recv_pending, arrived, ir_calls,
                   connVars, hpVars>>

\* lines 162-166: print the status, read it again, break when Connected
ConnStatus_NoBreak ==
    /\ pc = "conn_status"
    /\ PrintStatusInfo
    /\ observed' = connection_status
    /\ pc' = "conn_disconnect"
    /\ UNCHANGED <<initVars, keyVars, is_connected, result, svcVars,
                   disconnect_calls, first_packet_handled, hpVars>>

ConnStatus ==
    /\ pc = "conn_status"
    /\ PrintStatusInfo
    /\ observed' = connection_status
    /\ pc' = IF connection_status = "Connected" THEN "first_scan"
                                                ELSE "conn_disconnect"
    /\ UNCHANGED <<initVars, keyVars, is_connected, result, svcVars,
                   disconnect_calls, first_packet_handled, hpVars>>

\* lines 169-171: ir_user.disconnect().expect(..)
ConnDisconnect ==
    /\ pc = "conn_disconnect"
    /\ Calls({"disconnect"})
    /\ disconnect_calls' = disconnect_calls + 1
    /\ \/ pc' = "conn_wait2"
       \/ Panic
    /\ UNCHANGED <<initVars, keyVars, is_connected, result, svcVars,
                   observed, first_packet_handled, hpVars>>

\* lines 174-182: wait up to 100 ms for the disconnect to go through, then
\* loop; a non-timeout error panics
ConnWait2 ==
    /\ pc = "conn_wait2"
    /\ \E r \in WaitResults(ev_conn) :
         /\ ev_conn' = FALSE
         /\ pc' = IF r = "Error" THEN "panicked" ELSE "conn_scan"
    /\ UNCHANGED <<initVars, keyVars, is_connected, result, connection_status,
                   ev_recv, ev_send, recv_pending, arrived, ir_calls,
                   connVars, hpVars>>

\* line 186 (first-packet loop): hid.scan_input()
FirstScan ==
    /\ pc = "first_scan"
    /\ ScanInput
    /\ pc' = "first_check_start"
    /\ UNCHANGED <<initVars, is_connected, result, svcVars, ir_calls,
                   connVars, hpVars>>

\* lines 187-189: if START is held, return Canceled
FirstCheckStart ==
    /\ pc = "first_check_start"
    /\ IF start_held
         THEN result' = "Canceled" /\ pc' = "main_match"
         ELSE result' = result /\ pc' = "first_wait"
    /\ UNCHANGED <<initVars, keyVars, is_connected, svcVars, ir_calls,
                   connVars, hpVars>>

\* lines 192-204: wait up to 100 ms on the receive-packet event, print the
\* status; on Ok handle the packets and break, on any error loop again
FirstWait_AlwaysBreak ==
    /\ pc = "first_wait"
    /\ PrintStatusInfo
    /\ ev_recv' = FALSE
    /\ pc' = "conn_return"
    /\ UNCHANGED <<initVars, keyVars, is_connected, result, connection_status,
                   ev_conn, ev_send, recv_pending, arrived, connVars, hpVars>>

FirstWait ==
    /\ pc = "first_wait"
    /\ PrintStatusInfo
    /\ \E r \in WaitResults(ev_recv) :
         /\ ev_recv' = FALSE
         /\ IF r = "Ok"
              THEN /\ first_packet_handled' = TRUE
                   /\ pc' = "hp_get" /\ hp_ret' = "conn_return"
              ELSE /\ first_packet_handled' = first_packet_handled
                   /\ pc' = "first_scan" /\ hp_ret' = hp_ret
    /\ UNCHANGED <<initVars, keyVars, is_connected, result, connection_status,
                   ev_conn, ev_send, recv_pending, arrived, observed,
                   disconnect_calls, packet_count, printed, release_calls,
                   obtained, released>>

\* line 206: ConnectionResult::Connected
ConnReturn ==
    /\ pc = "conn_return"
    /\ result' = "Connected"
    /\ pc' = "main_match"
    /\ UNCHANGED <<initVars, keyVars, is_connected, svcVars, ir_calls,
                   connVars, hpVars>>

\* ------------------------------------------------------- handle_packets

\* lines 210-217: get_packets().expect(..); return when there is no packet
HpGet ==
    /\ pc = "hp_get"
    /\ Calls({"get_packets"})
    /\ printed' = FALSE
    /\ release_calls' = 0
    /\ \/ /\ packet_count' = recv_pending
          /\ obtained' = obtained + recv_pending
          /\ pc' = IF recv_pending = 0 THEN hp_ret ELSE "hp_parse"
       \/ /\ packet_count' = 0          \* packets not well formed
          /\ obtained' = obtained
          /\ Panic
    /\ UNCHANGED <<initVars, keyVars, is_connected, result, svcVars,
                   connVars, hp_ret, released>>

\* lines 218-220: get_status_info and CirclePadProInputResponse::try_from
HpParse ==
    /\ pc = "hp_parse"
    /\ Calls({"get_status_info"})
    /\ \/ pc' = "hp_print"
       \/ Panic
    /\ UNCHANGED <<initVars, keyVars, is_connected, result, svcVars,
                   connVars, hpVars>>

\* lines 222-243: print status, shared memory and the last packet
HpPrint ==
    /\ pc = "hp_print"
    /\ Calls({"process_shared_memory"})
    /\ printed' = TRUE
    /\ pc' = "hp_release"
    /\ UNCHANGED <<initVars, keyVars, is_connected, result, svcVars,
                   connVars, hp_ret, packet_count, release_calls,
                   obtained, released>>

\* The service frees n packets of its receive buffer.
ReleaseReceivedData(n) == recv_pending' = recv_pending - n

\* lines 246-250: release_received_data(packet_count).expect(..)
HpRelease_One ==
    /\ pc = "hp_release"
    /\ Calls({"release_received_data"})
    /\ release_calls' = release_calls + 1
    /\ \/ /\ ReleaseReceivedData(1)
          /\ released' = released + 1
          /\ pc' = hp_ret
       \/ /\ UNCHANGED <<recv_pending, released>>
          /\ Panic
    /\ UNCHANGED <<initVars, keyVars, is_connected, result, connection_status,
                   ev_conn, ev_recv, ev_send, arrived, connVars, hp_ret,
                   packet_count, printed, obtained>>

HpRelease ==
    /\ pc = "hp_release"
    /\ Calls({"release_received_data"})
    /\ release_calls' = release_calls + 1
    /\ \/ /\ ReleaseReceivedData(packet_count)
          /\ released' = released + packet_count
          /\ pc' = hp_ret
       \/ /\ UNCHANGED <<recv_pending, released>>
          /\ Panic
    /\ UNCHANGED <<initVars, keyVars, is_connected, result, connection_status,
                   ev_conn, ev_recv, ev_send, arrived, connVars, hp_ret,
                   packet_count, printed, obtained>>

\* ------------------------------------------- ir:USER service and device

Running == ir_user_init /\ pc \notin Terminal

\* The connection status changes and the connection-status event fires.
ServiceStatusChange ==
    /\ Running
    /\ \E s \in ConnectionStatus \ {connection_status} :
         connection_status' = s
    /\ ev_conn' = TRUE
    /\ UNCHANGED <<pc, initVars, keyVars, is_connected, result, ev_recv,
                   ev_send, recv_pending, arrived, ir_calls, connVars, hpVars>>

\* The service establishes the connection the demo asked for.
ServiceConnects ==
    /\ Running
    /\ ir_calls \cap ConnectMethods # {}
    /\ connection_status # "Connected"
    /\ connection_status' = "Connected"
    /\ ev_conn' = TRUE
    /\ UNCHANGED <<pc, initVars, keyVars, is_connected, result, ev_recv,
                   ev_send, recv_pending, arrived, ir_calls, connVars, hpVars>>

\* A packet arrives in the receive buffer and the receive event fires.
PacketArrives ==
    /\ Running
    /\ arrived < MaxArrived
    /\ recv_pending < PACKET_COUNT
    /\ recv_pending' = recv_pending + 1
    /\ arrived' = arrived + 1
    /\ ev_recv' = TRUE
    /\ UNCHANGED <<pc, initVars, keyVars, is_connected, result,
                   connection_status, ev_conn, ev_send, ir_calls, connVars,
                   hpVars>>

\* The portal answers a packet the demo sent.
PortalAnswers ==
    /\ ir_calls \cap SendMethods # {}
    /\ PacketArrives

\* The send event fires.
SendEventSignal ==
    /\ Running
    /\ ~ev_send
    /\ ev_send' = TRUE
    /\ UNCHANGED <<pc, initVars, keyVars, is_connected, result,
                   connection_status, ev_conn, ev_recv, recv_pending, arrived,
                   ir_calls, connVars, hpVars>>

\* ------------------------------------------------------- specification

DemoNext ==
    \/ AptNew \/ GfxNew \/ DemoNew \/ MainPrintStatus \/ HidNew
    \/ MainLoop \/ MainScan \/ MainCheckStart \/ MainPollRecv \/ MainPollSend
    \/ MainCheckA \/ MainMatch \/ MainVblank
    \/ ConnScan \/ ConnCheckStart \/ ConnWait \/ ConnStatus \/ ConnDisconnect
    \/ ConnWait2 \/ FirstScan \/ FirstCheckStart \/ FirstWait \/ ConnReturn
    \/ HpGet \/ HpParse \/ HpPrint \/ HpRelease

ServiceNext ==
    \/ ServiceStatusChange \/ PacketArrives \/ SendEventSignal

Next == DemoNext \/ ServiceNext

Spec == Init /\ [][Next]_vars

\* The demo keeps running; the service answers a connection request and
\* the portal answers a packet sent to it.
FairSpec ==
    /\ Spec
    /\ WF_vars(DemoNext)
    /\ WF_vars(ServiceConnects)
    /\ WF_vars(PortalAnswers)


\* ------------------------------------------------------------ properties

ConnLoopPcs == {"conn_scan", "conn_check_start", "conn_wait", "conn_status",
                "conn_disconnect", "conn_wait2"}
FirstLoopPcs == {"first_scan", "first_check_start", "first_wait"}
HpPcs == {"hp_get", "hp_parse", "hp_print", "hp_release"}

\* C1: ir:USER is initialized strictly before HID: HID is never initialized
\* while ir:USER is not, and the step that initializes HID starts from a
\* state in which ir:USER is already initialized.
C1_IrUserBeforeHid ==
    /\ [](hid_init => ir_user_init)
    /\ [][(~hid_init /\ hid_init') => ir_user_init]_vars

C1_Witness == hid_init /\ ir_user_init /\ pc = "main_loop"

\* C2: when START is held after the main loop's scan, the demo's next step
\* leaves the loop without polling an event, handling packets or connecting;
\* when START is held at the top of an iteration of either loop of
\* connect_to_portal, its next step returns Canceled, and on Canceled main's
\* next step leaves the loop with is_connected unchanged.
C2_StartExits ==
    [][ (pc' # pc) =>
          /\ (pc = "main_check_start" /\ start_held) =>
                /\ pc' = "exit"
                /\ UNCHANGED <<svcVars, ir_calls, hpVars, connVars, result,
                               is_connected>>
          /\ (pc \in {"conn_check_start", "first_check_start"} /\ start_held) =>
                /\ result' = "Canceled"
                /\ pc' = "main_match"
                /\ UNCHANGED <<svcVars, ir_calls, hpVars>>
          /\ (pc = "main_match" /\ result = "Canceled") =>
                /\ pc' = "exit"
                /\ is_connected' = is_connected
                /\ ~is_connected
      ]_vars

C2_Witness == pc = "exit" /\ start_held /\ result = "Canceled" /\ ~is_connected

\* C3: the hidShouldUseIrrst hook is false, so ir:rst is never initialized
\* and is never initialized together with ir:USER.
C3_IrrstNeverInit ==
    /\ ~hidShouldUseIrrst
    /\ ~irrst_init
    /\ ~(irrst_init /\ ir_user_init)

C3_Witness == hid_init /\ ir_user_init /\ ~irrst_init /\ pc = "main_scan"

\* C4: whenever connect_to_portal waits on the connection-status event for
\* the connection to establish, it has asked the service to connect.
C4_RequestBeforeWait ==
    pc = "conn_wait" => ir_calls \cap ConnectMethods # {}

\* C5: in the connection loop, an iteration that read a status other than
\* Connected calls disconnect() exactly once and then waits on the
\* connection-status event before the next iteration; disconnect() is not
\* called when Connected was read, nor after the loop has been left.
C5_DisconnectOncePerRetry ==
    /\ [](pc = "conn_wait2" => disconnect_calls = 1 /\ observed # "Connected")
    /\ [](pc \in FirstLoopPcs \cup {"conn_return"} =>
            disconnect_calls = 0 /\ observed = "Connected")
    /\ [][ /\ (disconnect_calls' > disconnect_calls) =>
                /\ pc = "conn_disconnect"
                /\ observed # "Connected"
                /\ disconnect_calls = 0
                /\ pc' \in {"conn_wait2", "panicked"}
           /\ (pc \in ConnLoopPcs /\ pc' = "conn_scan" /\ pc # "conn_scan") =>
                /\ pc = "conn_wait2"
                /\ disconnect_calls = 1
           /\ (pc = "conn_status" /\ pc' # pc /\ observed' # "Connected") =>
                pc' = "conn_disconnect"
           /\ (pc = "conn_status" /\ pc' # pc /\ observed' = "Connected") =>
                pc' = "first_scan"
       ]_vars

C5_Witness ==
    pc = "conn_scan" /\ observed \in ConnectionStatus \ {"Connected"}
                     /\ disconnect_calls = 1

\* C6: handle_packets calls release_received_data only after printing, at
\* most once, with the number of packets get_packets returned; when it
\* returns after get_packets gave n >= 1 packets it has released exactly
\* once; the packets released never exceed the packets obtained.
C6_ReleaseWhatWasHandled ==
    /\ [](released <= obtained)
    /\ [][ /\ (release_calls' > release_calls) =>
                /\ pc = "hp_release"
                /\ printed
                /\ release_calls = 0
                /\ packet_count >= 1
                /\ pc' # "panicked" => released' = released + packet_count
           /\ (released' # released) =>
                /\ release_calls' = release_calls + 1
                /\ released' = released + packet_count
           /\ (pc \in HpPcs /\ pc' \notin HpPcs /\ pc' # "panicked"
                 /\ packet_count' >= 1) =>
                /\ release_calls' = 1
                /\ released' = released + packet_count
                /\ released' = obtained'
       ]_vars

C6_Witness ==
    pc \notin HpPcs /\ pc # "panicked" /\ release_calls = 1
      /\ packet_count = 2 /\ released = 2 /\ obtained = 2

\* C7: whenever the first-packet loop waits on the receive-packet event, the
\* demo has sent a packet to the portal.
C7_SendBeforeWait ==
    pc = "first_wait" => ir_calls \cap SendMethods # {}

\* C8: connect_to_portal returns Connected only after Connected was read in
\* the connection loop and, after that, a wait on the receive-packet event
\* succeeded and handle_packets was called; is_connected is true only after
\* that return value.
C8_ConnectedOnlyAfterFirstPacket ==
    /\ [](result = "Connected" =>
            observed = "Connected" /\ first_packet_handled)
    /\ [](is_connected => result = "Connected")
    /\ [][ /\ (~first_packet_handled /\ first_packet_handled') =>
                /\ observed = "Connected"
                /\ pc = "first_wait" /\ ev_recv /\ pc' = "hp_get"
           /\ (result # "Connected" /\ result' = "Connected") =>
                /\ first_packet_handled /\ pc = "conn_return"
           /\ (~is_connected /\ is_connected') => result = "Connected"
       ]_vars

C8_Witness == is_connected /\ result = "Connected" /\ pc = "main_vblank"

\* C9: after connect_to_portal is entered, if START is never held and the
\* program never panics, connect_to_portal eventually returns Connected.
C9_EventuallyConnected ==
    ([]~start_held /\ [](pc # "panicked")) =>
        ((pc = "conn_scan") ~> (result = "Connected"))

====
